---- MODULE Spec2Model ----
(***************************************************************************)
(* The IVLRF scoring pipeline: the shared vehicle table, the four engines  *)
(* (survival_analyzer, risk_scorer, emissions_calculator, equity_mapper),  *)
(* the report generator and the two drivers that run them                  *)
(* (run_pipeline.main and the script simple_test.py).                      *)
(*                                                                         *)
(* Numbers are fixed point, the unit chosen per quantity so that the       *)
(* arithmetic of the source is exact on the inputs enumerated here:        *)
(*   probabilities and exp() factors   1e-6                                *)
(*   risk_base                         1e-5                                *)
(*   make_factor, price_premium        1e-1                                *)
(*   risk_score, noise                 1e-3                                *)
(*   emission rates, annual kg         1e-2                                *)
(*   median_income                     1e+3 (dollars)                      *)
(* A mean or a ratio is kept as an exact fraction Num(num, den); the mean  *)
(* of no value is NaN, as in pandas.                                       *)
(***************************************************************************)
EXTENDS Integers, Sequences, FiniteSets, TLC

VARIABLES
  driver,            \* which script runs: "main" or "simple_test"
  pc,                \* the driver's position: the stage it is about to invoke
  cols,              \* vehicle_data.columns
  df,                \* vehicle_data's rows, in row order
  rng42,             \* the draws of np.random.normal after np.random.seed(42)
  np_random,         \* the state of numpy's global generator
  demo_data,         \* the demographic table the data source returned
  tie_order,         \* how this build's sort orders rows with equal keys
  can_plot,          \* whether matplotlib can draw and save in this environment
  files,             \* the paths that exist below the working directory
  invoked,           \* the stages invoked so far, in order
  raised,            \* the stages whose engine raised
  survival_results,  \* << >> until the stage returned, then <<its result>>
  risk_results,
  emissions_results,
  equity_results,
  report_path,
  request            \* << >>, or <<a call made on the table after the run>>

vars ==
  <<driver, pc, cols, df, rng42, np_random, demo_data, tie_order, can_plot,
    files, invoked, raised, survival_results, risk_results, emissions_results,
    equity_results, report_path, request>>

(***************************************************************************)
(* Values: exact fractions and NaN.                                        *)
(***************************************************************************)
Num(n, d) == [kind |-> "num", num |-> n, den |-> d]

NaN == [kind |-> "NaN", num |-> 0, den |-> 1]

IsNaN(v) == v.kind = "NaN"

RECURSIVE Sum(_)
Sum(s) == IF s = << >> THEN 0 ELSE Head(s) + Sum(Tail(s))

\* Series.mean(): NaN over zero rows.
Mean(s) == IF Len(s) = 0 THEN NaN ELSE Num(Sum(s), Len(s))

RECURSIVE Insert(_, _)
Insert(x, s) ==
  IF s = << >> THEN <<x>>
  ELSE IF x <= Head(s) THEN <<x>> \o s
  ELSE <<Head(s)>> \o Insert(x, Tail(s))

RECURSIVE SortAsc(_)
SortAsc(s) == IF s = << >> THEN << >> ELSE Insert(Head(s), SortAsc(Tail(s)))

\* Series.median(): NaN over zero rows, the mean of the two middle values
\* for an even count.
Median(s) ==
  LET n == Len(s)
      t == SortAsc(s)
  IN  IF n = 0 THEN NaN
      ELSE IF n % 2 = 1 THEN Num(t[(n + 1) \div 2], 1)
      ELSE Num(t[n \div 2] + t[n \div 2 + 1], 2)

\* np.clip / Series.clip
Clip(x, lo, hi) == IF x < lo THEN lo ELSE IF x > hi THEN hi ELSE x

Column(d, c) == [i \in 1..Len(d) |-> d[i][c]]

\* df.head(n)
HeadN(s, n) == IF Len(s) <= n THEN s ELSE SubSeq(s, 1, n)

\* round(1e6 * exp(-k/100)) for k = 0..360
ExpNegTable ==
  <<
     1000000, 990050, 980199, 970446, 960789, 951229, 941765, 932394, 923116, 913931,
     904837, 895834, 886920, 878095, 869358, 860708, 852144, 843665, 835270, 826959,
     818731, 810584, 802519, 794534, 786628, 778801, 771052, 763379, 755784, 748264,
     740818, 733447, 726149, 718924, 711770, 704688, 697676, 690734, 683861, 677057,
     670320, 663650, 657047, 650509, 644036, 637628, 631284, 625002, 618783, 612626,
     606531, 600496, 594521, 588605, 582748, 576950, 571209, 565525, 559898, 554327,
     548812, 543351, 537944, 532592, 527292, 522046, 516851, 511709, 506617, 501576,
     496585, 491644, 486752, 481909, 477114, 472367, 467666, 463013, 458406, 453845,
     449329, 444858, 440432, 436049, 431711, 427415, 423162, 418952, 414783, 410656,
     406570, 402524, 398519, 394554, 390628, 386741, 382893, 379083, 375311, 371577,
     367879, 364219, 360595, 357007, 353455, 349938, 346456, 343009, 339596, 336216,
     332871, 329559, 326280, 323033, 319819, 316637, 313486, 310367, 307279, 304221,
     301194, 298197, 295230, 292293, 289384, 286505, 283654, 280832, 278037, 275271,
     272532, 269820, 267135, 264477, 261846, 259240, 256661, 254107, 251579, 249075,
     246597, 244143, 241714, 239309, 236928, 234570, 232236, 229925, 227638, 225373,
     223130, 220910, 218712, 216536, 214381, 212248, 210136, 208045, 205975, 203926,
     201897, 199888, 197899, 195930, 193980, 192050, 190139, 188247, 186374, 184520,
     182684, 180866, 179066, 177284, 175520, 173774, 172045, 170333, 168638, 166960,
     165299, 163654, 162026, 160414, 158817, 157237, 155673, 154124, 152590, 151072,
     149569, 148080, 146607, 145148, 143704, 142274, 140858, 139457, 138069, 136695,
     135335, 133989, 132655, 131336, 130029, 128735, 127454, 126186, 124930, 123687,
     122456, 121238, 120032, 118837, 117655, 116484, 115325, 114178, 113042, 111917,
     110803, 109701, 108609, 107528, 106459, 105399, 104350, 103312, 102284, 101266,
     100259, 99261, 98274, 97296, 96328, 95369, 94420, 93481, 92551, 91630,
     90718, 89815, 88922, 88037, 87161, 86294, 85435, 84585, 83743, 82910,
     82085, 81268, 80460, 79659, 78866, 78082, 77305, 76536, 75774, 75020,
     74274, 73535, 72803, 72078, 71361, 70651, 69948, 69252, 68563, 67881,
     67206, 66537, 65875, 65219, 64570, 63928, 63292, 62662, 62039, 61421,
     60810, 60205, 59606, 59013, 58426, 57844, 57269, 56699, 56135, 55576,
     55023, 54476, 53934, 53397, 52866, 52340, 51819, 51303, 50793, 50287,
     49787, 49292, 48801, 48316, 47835, 47359, 46888, 46421, 45959, 45502,
     45049, 44601, 44157, 43718, 43283, 42852, 42426, 42004, 41586, 41172,
     40762, 40357, 39955, 39557, 39164, 38774, 38388, 38006, 37628, 37254,
     36883, 36516, 36153, 35793, 35437, 35084, 34735, 34390, 34047, 33709,
     33373, 33041, 32712, 32387, 32065, 31746, 31430, 31117, 30807, 30501,
     30197, 29897, 29599, 29305, 29013, 28725, 28439, 28156, 27876, 27598,
     27324
  >>

\* np.exp(-x), x >= 0 given in hundredths
ExpNeg(k) == ExpNegTable[k + 1]

\* round(1e6 * 0.95 ** (t / (t - 30))) for t = 1..29
OkamotoPowTable ==
  <<
     1001770, 1003671, 1005716, 1007922, 1010311, 1012906, 1015733, 1018827,
     1022226, 1025978, 1030141, 1034787, 1040004, 1045904, 1052632, 1060373,
     1069377, 1079977, 1092641, 1108033, 1127141, 1151490, 1183570, 1227738,
     1292355, 1395714, 1586673, 2050546, 4426041
  >>

(***************************************************************************)
(* Raising and returning.  An engine works on the caller's table in place: *)
(* what it assigned before it raised stays assigned.                       *)
(***************************************************************************)
Raise(cs, d, fs) ==
  [raised |-> TRUE, cols |-> cs, df |-> d, files |-> fs, result |-> << >>]

Return(cs, d, fs, res) ==
  [raised |-> FALSE, cols |-> cs, df |-> d, files |-> fs, result |-> <<res>>]

OUTPUTS_DIR == "../outputs"

\* if not os.path.exists(outputs_dir): os.makedirs(outputs_dir)
MakeOutputsDir(fs) == fs \cup {OUTPUTS_DIR}

(***************************************************************************)
(* survival_analyzer.py                                                    *)
(***************************************************************************)
MAX_AGE == 30

bins == <<0, 5, 10, 15, MAX_AGE>>

labels == <<"0-5", "5-10", "10-15", "15+">>

\* survival_rates, in hundredths
survival_rates == <<95, 85, 70, 50>>

\* mutant: the upper bound of a bin is inclusive
CohortData_inclusive_high(d, i) ==
  SelectSeq(d, LAMBDA r : r.vehicle_age >= bins[i] /\ r.vehicle_age <= bins[i + 1])

\* vehicle_df[(vehicle_df['vehicle_age'] >= low) & (vehicle_df['vehicle_age'] < high)]
CohortData(d, i) ==
  SelectSeq(d, LAMBDA r : r.vehicle_age >= bins[i] /\ r.vehicle_age < bins[i + 1])

CohortRow(d, i) ==
  LET cohort_data == CohortData(d, i)
      count == Len(cohort_data)
      ages == Column(cohort_data, "vehicle_age")
  IN  [age_cohort |-> labels[i],
       count |-> count,
       avg_age |-> Mean(ages),
       avg_odometer |-> Mean(Column(cohort_data, "odometer")),
       survival_rate |-> survival_rates[i],
       \* survival_rate * (max_age - avg_age)
       expected_remaining |->
         Num(survival_rates[i] * (MAX_AGE * count - Sum(ages)), 100 * count)]

RECURSIVE CohortRowsFrom(_, _)
CohortRowsFrom(d, i) ==
  IF i > Len(labels) THEN << >>
  ELSE (IF Len(CohortData(d, i)) > 0 THEN <<CohortRow(d, i)>> ELSE << >>)
       \o CohortRowsFrom(d, i + 1)

\* Reads the table and assigns nothing.  vehicle_age is read for every bin,
\* odometer only for a bin that holds a vehicle.
calculate_cohort_survival(cs, d, fs) ==
  IF "vehicle_age" \notin cs THEN Raise(cs, d, fs)
  ELSE IF "odometer" \notin cs /\ \E i \in 1..Len(labels) : Len(CohortData(d, i)) > 0
       THEN Raise(cs, d, fs)
  ELSE Return(cs, d, fs, CohortRowsFrom(d, 1))

calculate_greenspan_cohen_survival(cs, d, fs) ==
  IF "vehicle_age" \notin cs THEN Raise(cs, d, fs)
  ELSE
    LET d1 == [i \in 1..Len(d) |->
                 [d[i] EXCEPT !.deterioration_factor = ExpNeg(5 * d[i].vehicle_age)]]
        cs1 == cs \cup {"deterioration_factor"}
    IN  IF "odometer" \notin cs THEN Raise(cs1, d1, fs)
        ELSE
          LET d2 == [i \in 1..Len(d) |->
                       [d1[i] EXCEPT !.market_value_factor =
                                       ExpNeg((3 * d1[i].odometer) \div 10000)]]
              d3 == [i \in 1..Len(d) |->
                       [d2[i] EXCEPT !.survival_probability_gc =
                          (7 * d2[i].deterioration_factor
                           + 3 * d2[i].market_value_factor) \div 10]]
          IN  Return(cs1 \cup {"market_value_factor", "survival_probability_gc"},
                     d3, fs, << >>)

OKAMOTO_M == 30

\* mutant: the two overrides return each other's value
okamoto_survival_swapped(t) ==
  IF t >= OKAMOTO_M THEN 1000000
  ELSE IF t = 0 THEN 0
  ELSE OkamotoPowTable[t]

\* mutant: the exponent is t / (M - t), which keeps the value below 1
okamoto_survival_positive_exponent(t) ==
  IF t >= OKAMOTO_M THEN 0
  ELSE IF t = 0 THEN 1000000
  ELSE (1000000 * 1000) \div (OkamotoPowTable[t] \div 1000)

\* the defaults M=30, a=0.95, with which the pipeline calls it
okamoto_survival(t) ==
  IF t >= OKAMOTO_M THEN 0
  ELSE IF t = 0 THEN 1000000
  ELSE OkamotoPowTable[t]

calculate_okamoto_survival(cs, d, fs) ==
  IF "vehicle_age" \notin cs THEN Raise(cs, d, fs)
  ELSE Return(cs \cup {"survival_probability_okamoto"},
              [i \in 1..Len(d) |->
                 [d[i] EXCEPT !.survival_probability_okamoto =
                                okamoto_survival(d[i].vehicle_age)]],
              fs, << >>)

\* eta = -0.7, in tenths
ETA == -7

ELASTICITY_REFERENCE_YEAR == 2023

\* 1 + 0.1 * (2023 - model_year), in tenths
price_premium(model_year) == 10 + (ELASTICITY_REFERENCE_YEAR - model_year)

\* mutant: the premium raises survival instead of lowering it
elasticity_effect_raises(model_year) == 100 - ETA * price_premium(model_year)

\* 1 + eta * price_premium, in hundredths
elasticity_effect(model_year) == 100 + ETA * price_premium(model_year)

\* mutant: the product is stored without the clip
survival_elasticity_adjusted_unclipped(age, model_year) ==
  (ExpNeg(10 * age) * elasticity_effect(model_year)) \div 100

\* (np.exp(-0.1 * age) * elasticity_effect).clip(0, 1)
survival_elasticity_adjusted(age, model_year) ==
  Clip((ExpNeg(10 * age) * elasticity_effect(model_year)) \div 100, 0, 1000000)

calculate_scrap_elasticity_effect(cs, d, fs) ==
  IF "model_year" \notin cs THEN Raise(cs, d, fs)
  ELSE
    LET d1 == [i \in 1..Len(d) |->
                 [d[i] EXCEPT !.price_premium = price_premium(d[i].model_year)]]
        cs1 == cs \cup {"price_premium"}
    IN  IF "vehicle_age" \notin cs THEN Raise(cs1, d1, fs)
        ELSE Return(cs1 \cup {"survival_elasticity_adjusted"},
                    [i \in 1..Len(d) |->
                       [d1[i] EXCEPT !.survival_elasticity_adjusted =
                          survival_elasticity_adjusted(d1[i].vehicle_age,
                                                       d1[i].model_year)]],
                    fs, << >>)

\* 0.3 * gc + 0.3 * okamoto + 0.4 * elasticity, not clamped
final_survival_probability(r) ==
  (3 * r.survival_probability_gc + 3 * r.survival_probability_okamoto
   + 4 * r.survival_elasticity_adjusted) \div 10

\* The text file is always written; the plot is written unless matplotlib
\* raises inside the try block.
generate_output(fs, plot_ok) ==
  MakeOutputsDir(fs) \cup {"../outputs/phd_survival_results.txt"}
  \cup (IF plot_ok THEN {"../outputs/survival_plot.png"} ELSE {})

\* leakage_estimate = 0.15, in hundredths
LEAKAGE_ESTIMATE == 15

SurvivalSummary(d) ==
  [avg_survival |-> Mean(Column(d, "final_survival_probability")),
   median_remaining |-> Median([i \in 1..Len(d) |-> 30 - d[i].vehicle_age]),
   high_risk |-> Len(SelectSeq(d, LAMBDA r : r.final_survival_probability < 500000)),
   leakage_estimate |-> LEAKAGE_ESTIMATE]

calculate_phd_survival_curves(cs, d, fs, plot_ok) ==
  LET cohort == calculate_cohort_survival(cs, d, fs)
  IN  IF cohort.raised THEN cohort
      ELSE
        LET gc == calculate_greenspan_cohen_survival(cs, d, fs)
        IN  IF gc.raised THEN gc
            ELSE
              LET ok == calculate_okamoto_survival(gc.cols, gc.df, fs)
              IN  IF ok.raised THEN ok
                  ELSE
                    LET el == calculate_scrap_elasticity_effect(ok.cols, ok.df, fs)
                    IN  IF el.raised THEN el
                        ELSE
                          LET d1 == [i \in 1..Len(d) |->
                                       [el.df[i] EXCEPT !.final_survival_probability =
                                          final_survival_probability(el.df[i])]]
                          IN  Return(el.cols \cup {"final_survival_probability"},
                                     d1,
                                     generate_output(fs, plot_ok),
                                     [cohort_results |-> cohort.result[1],
                                      summary |-> SurvivalSummary(d1)])

(***************************************************************************)
(* Sorting.  sort_values(ascending=False) orders rows by one key; the order *)
(* of rows with equal keys is whatever the build's sort does, the same     *)
(* way on every call: tie_order fixes it for the run.                      *)
(***************************************************************************)
RECURSIVE InsertDesc(_, _, _, _)
InsertDesc(r, s, key, tie) ==
  IF s = << >> THEN <<r>>
  ELSE IF r[key] > Head(s)[key] \/ (r[key] = Head(s)[key] /\ tie = "reversed")
       THEN <<r>> \o s
  ELSE <<Head(s)>> \o InsertDesc(r, Tail(s), key, tie)

RECURSIVE SortDescFrom(_, _, _, _)
SortDescFrom(d, i, key, tie) ==
  IF i = 0 THEN << >>
  ELSE InsertDesc(d[i], SortDescFrom(d, i - 1, key, tie), key, tie)

\* d.sort_values(key, ascending=False)
SortDesc(d, key, tie) == SortDescFrom(d, Len(d), key, tie)

(***************************************************************************)
(* risk_scorer.py                                                          *)
(***************************************************************************)
RISK_REFERENCE_YEAR == 2024

NHTSA_TOP_N == 50

\* 0.1 * age + 0.00001 * odometer + 0.05 * (2024 - model_year), in 1e-5
risk_base(r) ==
  10000 * r.vehicle_age + r.odometer + 5000 * (RISK_REFERENCE_YEAR - r.model_year)

\* make_risk, in tenths; .fillna(1.0) for a make the table does not hold
make_factor(make) ==
  CASE make = "Toyota" -> 8
    [] make = "Ford" -> 10
    [] make = "Honda" -> 9
    [] make = "Chevrolet" -> 11
    [] make = "Nissan" -> 12
    [] OTHER -> 10

\* mutant: the clamp has no upper bound
risk_score_no_upper(rb, mf, noise) ==
  IF (rb * mf * 20) \div 1000 + noise < 0 THEN 0 ELSE (rb * mf * 20) \div 1000 + noise

\* np.clip(risk_base * make_factor * 20 + noise, 0, 100), in thousandths
risk_score(rb, mf, noise) == Clip((rb * mf * 20) \div 1000 + noise, 0, 100000)

\* mutant: the upper bounds are inclusive
risk_level_inclusive_upper(score) ==
  IF score <= 30000 THEN "Low"
  ELSE IF score <= 60000 THEN "Medium"
  ELSE IF score <= 80000 THEN "High"
  ELSE "Critical"

\* np.select(conditions, choices): the first condition that holds
risk_level(score) ==
  IF score < 30000 THEN "Low"
  ELSE IF score < 60000 THEN "Medium"
  ELSE IF score < 80000 THEN "High"
  ELSE "Critical"

\* mutant: the lower bounds of the ladder are exclusive
inspection_recommendation_exclusive(score) ==
  IF score > 80000 THEN "URGENT: Full safety inspection + emissions test"
  ELSE IF score > 60000 THEN "PRIORITY: Brake & tire inspection"
  ELSE "ROUTINE: Standard safety check"

inspection_recommendation(score) ==
  IF score >= 80000 THEN "URGENT: Full safety inspection + emissions test"
  ELSE IF score >= 60000 THEN "PRIORITY: Brake & tire inspection"
  ELSE "ROUTINE: Standard safety check"

PriorityRow(r) ==
  [vin |-> r.vin, make |-> r.make, model_year |-> r.model_year,
   vehicle_age |-> r.vehicle_age, odometer |-> r.odometer,
   risk_score |-> r.risk_score, risk_level |-> r.risk_level,
   inspection_recommendation |-> inspection_recommendation(r.risk_score)]

\* mutant: the first top_n rows of the table as it is, without the sort
generate_nhtsa_priority_list_unsorted(cs, d, fs, top_n, tie) ==
  LET fs1 == MakeOutputsDir(fs)
      priority_df == HeadN(d, top_n)
  IN  IF "vin" \notin cs THEN Raise(cs, d, fs1)
      ELSE Return(cs, d, fs1 \cup {"../outputs/nhtsa_priority_list.csv"},
                  [i \in 1..Len(priority_df) |-> PriorityRow(priority_df[i])])

generate_nhtsa_priority_list(cs, d, fs, top_n, tie) ==
  LET fs1 == MakeOutputsDir(fs)
      priority_df == HeadN(SortDesc(d, "risk_score", tie), top_n)
  IN  IF "vin" \notin cs THEN Raise(cs, d, fs1)
      ELSE Return(cs, d, fs1 \cup {"../outputs/nhtsa_priority_list.csv"},
                  [i \in 1..Len(priority_df) |-> PriorityRow(priority_df[i])])

RiskScoresRow(r) ==
  [vin |-> r.vin, make |-> r.make, model_year |-> r.model_year,
   vehicle_age |-> r.vehicle_age, odometer |-> r.odometer,
   risk_score |-> r.risk_score, risk_level |-> r.risk_level]

RiskSummary(d) ==
  [critical_count |-> Len(SelectSeq(d, LAMBDA r : r.risk_level = "Critical")),
   high_count |-> Len(SelectSeq(d, LAMBDA r : r.risk_level = "High")),
   avg_risk_score |-> Mean(Column(d, "risk_score"))]

\* The global generator is "seed_42" right after np.random.seed(42) and
\* "advanced" once anything was drawn from it.
\* mutant: the function does not seed the generator
np_random_seed_skipped(gen) == gen

\* np.random.seed(42)
np_random_seed(gen) == "seed_42"

\* draws of the noise term from a generator in an unknown state, in thousandths
FleetNoise == {-20000, 20000}

\* np.random.normal(0, 5, n): the vectors the call can return.  Right after
\* seed(42) they are the first n values of that seed's stream; from any
\* other state they are whatever the generator holds next.
np_random_normal(gen, n, stream42) ==
  IF gen = "seed_42" THEN {stream42} ELSE [1..n -> FleetNoise]

\* the generator after the call: it has advanced when values were drawn
np_random_after(gen, cs, d) ==
  IF {"vehicle_age", "odometer", "model_year", "make"} \subseteq cs /\ Len(d) > 0
  THEN "advanced" ELSE gen

\* noise is the vector np.random.normal(0, 5, len(vehicle_df)) returned
calculate_risk_scores(cs, d, fs, noise, tie) ==
  IF ~({"vehicle_age", "odometer", "model_year"} \subseteq cs) THEN Raise(cs, d, fs)
  ELSE
    LET d1 == [i \in 1..Len(d) |-> [d[i] EXCEPT !.risk_base = risk_base(d[i])]]
        cs1 == cs \cup {"risk_base"}
    IN  IF "make" \notin cs THEN Raise(cs1, d1, fs)
        ELSE
          LET d2 == [i \in 1..Len(d) |->
                       [d1[i] EXCEPT !.make_factor = make_factor(d1[i].make)]]
              d3 == [i \in 1..Len(d) |->
                       [d2[i] EXCEPT !.risk_score =
                          risk_score(d2[i].risk_base, d2[i].make_factor, noise[i])]]
              d4 == [i \in 1..Len(d) |->
                       [d3[i] EXCEPT !.risk_level = risk_level(d3[i].risk_score)]]
              cs4 == cs1 \cup {"make_factor", "risk_score", "risk_level"}
              list == generate_nhtsa_priority_list(cs4, d4, fs, NHTSA_TOP_N, tie)
          IN  IF list.raised THEN list
              ELSE Return(cs4, d4, list.files,
                          [risk_scores |-> [i \in 1..Len(d4) |-> RiskScoresRow(d4[i])],
                           priority_list |-> list.result[1],
                           summary |-> RiskSummary(d4)])

(***************************************************************************)
(* emissions_calculator.py                                                 *)
(***************************************************************************)
\* mutant: the boundary years belong to the older category
get_category_inclusive(year) ==
  IF year <= 2000 THEN "pre_2000"
  ELSE IF year <= 2010 THEN "2000_2009"
  ELSE IF year <= 2020 THEN "2010_2019"
  ELSE "2020_plus"

get_category(year) ==
  IF year < 2000 THEN "pre_2000"
  ELSE IF year < 2010 THEN "2000_2009"
  ELSE IF year < 2020 THEN "2010_2019"
  ELSE "2020_plus"

\* emission_factors, grams per mile in hundredths
emission_factors(category) ==
  CASE category = "pre_2000" -> [CO2 |-> 50000, NOx |-> 120, PM25 |-> 8]
    [] category = "2000_2009" -> [CO2 |-> 42000, NOx |-> 80, PM25 |-> 5]
    [] category = "2010_2019" -> [CO2 |-> 35000, NOx |-> 40, PM25 |-> 2]
    [] category = "2020_plus" -> [CO2 |-> 28000, NOx |-> 20, PM25 |-> 1]

ANNUAL_MILEAGE == 12000

EPA_TOP_N == 50

\* rate * annual_mileage / 1000, kilograms in hundredths
annual_kg(g_per_mile, annual_mileage) == (g_per_mile * annual_mileage) \div 1000

EmissionsRow(r) ==
  LET category == get_category(r.model_year)
      f == emission_factors(category)
  IN  [r EXCEPT !.emission_category = category,
                !.CO2_g_per_mile = f.CO2,
                !.NOx_g_per_mile = f.NOx,
                !.PM25_g_per_mile = f.PM25,
                !.annual_mileage = ANNUAL_MILEAGE,
                !.CO2_annual_kg = annual_kg(f.CO2, ANNUAL_MILEAGE),
                !.NOx_annual_kg = annual_kg(f.NOx, ANNUAL_MILEAGE),
                !.PM25_annual_kg = annual_kg(f.PM25, ANNUAL_MILEAGE)]

EmissionsColumns ==
  {"emission_category", "CO2_g_per_mile", "NOx_g_per_mile", "PM25_g_per_mile",
   "annual_mileage", "CO2_annual_kg", "NOx_annual_kg", "PM25_annual_kg"}

\* PM25_annual_kg * 1000 + CO2_annual_kg * 50
estimated_benefit(r) == r.PM25_annual_kg * 1000 + r.CO2_annual_kg * 50

TargetRow(r) ==
  [vin |-> r.vin, make |-> r.make, model_year |-> r.model_year,
   vehicle_age |-> r.vehicle_age, emission_category |-> r.emission_category,
   PM25_annual_kg |-> r.PM25_annual_kg, CO2_annual_kg |-> r.CO2_annual_kg,
   estimated_benefit |-> estimated_benefit(r)]

\* mutant: the list is taken from the whole table, not from the two oldest
\* categories
generate_epa_targeting_list_unfiltered(cs, d, fs, top_n, tie) ==
  LET fs1 == MakeOutputsDir(fs)
      target_df == HeadN(SortDesc(d, "PM25_annual_kg", tie), top_n)
  IN  IF ~({"vin", "make", "vehicle_age"} \subseteq cs) THEN Raise(cs, d, fs1)
      ELSE Return(cs, d, fs1 \cup {"../outputs/epa_target_list.csv"},
                  [i \in 1..Len(target_df) |-> TargetRow(target_df[i])])

generate_epa_targeting_list(cs, d, fs, top_n, tie) ==
  LET fs1 == MakeOutputsDir(fs)
      old == SelectSeq(d, LAMBDA r : r.emission_category \in {"pre_2000", "2000_2009"})
      target_df == HeadN(SortDesc(old, "PM25_annual_kg", tie), top_n)
  IN  IF ~({"vin", "make", "vehicle_age"} \subseteq cs) THEN Raise(cs, d, fs1)
      ELSE Return(cs, d, fs1 \cup {"../outputs/epa_target_list.csv"},
                  [i \in 1..Len(target_df) |-> TargetRow(target_df[i])])

EmissionsSummary(d) ==
  [total_CO2_kg |-> Sum(Column(d, "CO2_annual_kg")),
   total_PM25_kg |-> Sum(Column(d, "PM25_annual_kg")),
   high_emitters |-> Len(SelectSeq(d, LAMBDA r : r.emission_category = "pre_2000"))]

calculate_emissions(cs, d, fs, tie) ==
  IF "model_year" \notin cs THEN Raise(cs, d, fs)
  ELSE
    LET d1 == [i \in 1..Len(d) |-> EmissionsRow(d[i])]
        cs1 == cs \cup EmissionsColumns
        list == generate_epa_targeting_list(cs1, d1, fs, EPA_TOP_N, tie)
    IN  IF list.raised THEN list
        ELSE Return(cs1, d1, list.files,
                    [epa_target_list |-> list.result[1],
                     summary |-> EmissionsSummary(d1)])

(***************************************************************************)
(* equity_mapper.py                                                        *)
(***************************************************************************)
\* zip_demo, the table the function builds itself: median_income in
\* thousands of dollars, poverty_rate and minority_pct in hundredths
zip_demo ==
  <<[zip_code |-> 90001, median_income |-> 45, poverty_rate |-> 22, minority_pct |-> 85],
    [zip_code |-> 90011, median_income |-> 38, poverty_rate |-> 28, minority_pct |-> 92],
    [zip_code |-> 90210, median_income |-> 125, poverty_rate |-> 5, minority_pct |-> 25],
    [zip_code |-> 94102, median_income |-> 85, poverty_rate |-> 12, minority_pct |-> 45],
    [zip_code |-> 95123, median_income |-> 72, poverty_rate |-> 15, minority_pct |-> 38]>>

RECURSIVE SetToSeqAsc(_)
SetToSeqAsc(S) ==
  IF S = {} THEN << >>
  ELSE LET m == CHOOSE x \in S : \A y \in S : x <= y
       IN  <<m>> \o SetToSeqAsc(S \ {m})

\* vehicle_df.merge(risk_data[['vin', 'risk_score', 'risk_level']], on='vin',
\* how='left'), into a table of the function's own.  risk_data is the table
\* the risk stage returned for these rows, so every vin has its row in it.
MergeRisk(d, risk_data) ==
  [i \in 1..Len(d) |->
     LET hits == SelectSeq(risk_data, LAMBDA x : x.vin = d[i].vin)
     IN  IF hits = << >> THEN d[i]
         ELSE [d[i] EXCEPT !.risk_score = hits[1].risk_score,
                           !.risk_level = hits[1].risk_level]]

\* mutant: a zip_code's risk_score is that of its first vehicle, not the mean
ZipStats_first_vehicle(d) ==
  LET zips == SetToSeqAsc({d[i].zip_code : i \in 1..Len(d)})
  IN  [k \in 1..Len(zips) |->
         LET g == SelectSeq(d, LAMBDA r : r.zip_code = zips[k])
         IN  [zip_code |-> zips[k],
              risk_score |-> Num(g[1].risk_score, 1),
              vehicle_age |-> Mean(Column(g, "vehicle_age")),
              vehicle_count |-> Len(g)]]

\* groupby('zip_code').agg(risk_score mean, vehicle_age mean, vin count),
\* one row per zip_code, in ascending order
ZipStats(d) ==
  LET zips == SetToSeqAsc({d[i].zip_code : i \in 1..Len(d)})
  IN  [k \in 1..Len(zips) |->
         LET g == SelectSeq(d, LAMBDA r : r.zip_code = zips[k])
         IN  [zip_code |-> zips[k],
              risk_score |-> Mean(Column(g, "risk_score")),
              vehicle_age |-> Mean(Column(g, "vehicle_age")),
              vehicle_count |-> Len(g)]]

\* pd.merge(zip_stats, zip_demo, on='zip_code', how='left'): a zip_code the
\* demographic table does not hold keeps its row, with NaN in the joined fields
JoinDemo(s, demo) ==
  LET hits == SelectSeq(demo, LAMBDA x : x.zip_code = s.zip_code)
  IN  [zip_code |-> s.zip_code,
       risk_score |-> s.risk_score,
       vehicle_age |-> s.vehicle_age,
       vehicle_count |-> s.vehicle_count,
       median_income |-> IF hits = << >> THEN NaN ELSE Num(hits[1].median_income, 1),
       poverty_rate |-> IF hits = << >> THEN NaN ELSE Num(hits[1].poverty_rate, 1),
       minority_pct |-> IF hits = << >> THEN NaN ELSE Num(hits[1].minority_pct, 1)]

\* equity_data['median_income'].max(): NaN is skipped, NaN when nothing is left
MaxIncome(rows) ==
  LET known == {rows[i].median_income.num :
                  i \in {j \in 1..Len(rows) : ~IsNaN(rows[j].median_income)}}
  IN  IF known = {} THEN NaN
      ELSE Num(CHOOSE x \in known : \A y \in known : y <= x, 1)

\* mutant: a missing income counts as an income of 0
income_normalized_fillna(income, max_income) ==
  IF IsNaN(max_income) THEN NaN
  ELSE IF IsNaN(income) THEN Num(0, max_income.num)
  ELSE Num(income.num, max_income.num)

\* median_income / median_income.max()
income_normalized(income, max_income) ==
  IF IsNaN(income) \/ IsNaN(max_income) THEN NaN
  ELSE Num(income.num, max_income.num)

\* mutant: the index grows with the income share instead of its complement
disparity_index_no_complement(mean_risk, norm) ==
  IF IsNaN(mean_risk) \/ IsNaN(norm) THEN NaN
  ELSE Num(mean_risk.num * norm.num, mean_risk.den * norm.den)

\* risk_score / 100 * (1 - income_normalized) * 100
disparity_index(mean_risk, norm) ==
  IF IsNaN(mean_risk) \/ IsNaN(norm) THEN NaN
  ELSE Num(mean_risk.num * (norm.den - norm.num), mean_risk.den * norm.den)

\* mutant: the threshold is inclusive
IsHighDisparity_inclusive(v) == ~IsNaN(v) /\ v.num >= 50000 * v.den

\* v > 50, with v in thousandths; NaN > 50 is False
IsHighDisparity(v) == ~IsNaN(v) /\ v.num > 50000 * v.den

\* mutant: an inner join, which drops a zip_code the demographic table does
\* not hold
EquityData_inner_join(d, demo) ==
  LET stats == SelectSeq(ZipStats(d),
                         LAMBDA s : \E i \in 1..Len(demo) : demo[i].zip_code = s.zip_code)
      joined == [k \in 1..Len(stats) |-> JoinDemo(stats[k], demo)]
      max_income == MaxIncome(joined)
  IN  [k \in 1..Len(joined) |->
         LET norm == income_normalized(joined[k].median_income, max_income)
         IN  [zip_code |-> joined[k].zip_code,
              risk_score |-> joined[k].risk_score,
              vehicle_age |-> joined[k].vehicle_age,
              vehicle_count |-> joined[k].vehicle_count,
              median_income |-> joined[k].median_income,
              poverty_rate |-> joined[k].poverty_rate,
              minority_pct |-> joined[k].minority_pct,
              income_normalized |-> norm,
              disparity_index |-> disparity_index(joined[k].risk_score, norm)]]

EquityData(d, demo) ==
  LET stats == ZipStats(d)
      joined == [k \in 1..Len(stats) |-> JoinDemo(stats[k], demo)]
      max_income == MaxIncome(joined)
  IN  [k \in 1..Len(joined) |->
         LET norm == income_normalized(joined[k].median_income, max_income)
         IN  [zip_code |-> joined[k].zip_code,
              risk_score |-> joined[k].risk_score,
              vehicle_age |-> joined[k].vehicle_age,
              vehicle_count |-> joined[k].vehicle_count,
              median_income |-> joined[k].median_income,
              poverty_rate |-> joined[k].poverty_rate,
              minority_pct |-> joined[k].minority_pct,
              income_normalized |-> norm,
              disparity_index |-> disparity_index(joined[k].risk_score, norm)]]

ReportRow(e) ==
  [zip_code |-> e.zip_code, median_income |-> e.median_income,
   poverty_rate |-> e.poverty_rate, minority_pct |-> e.minority_pct,
   risk_score |-> e.risk_score, disparity_index |-> e.disparity_index,
   hud_priority |-> "High",
   recommended_action |-> "Targeted vehicle replacement program"]

\* The report file is written only when a row qualifies; otherwise the
\* function returns an empty frame.
generate_hud_equity_report(equity_data, fs) ==
  LET fs1 == MakeOutputsDir(fs)
      high_disparity == SelectSeq(equity_data, LAMBDA e : IsHighDisparity(e.disparity_index))
  IN  IF Len(high_disparity) > 0
      THEN [files |-> fs1 \cup {"../outputs/hud_equity_report.csv"},
            report |-> [k \in 1..Len(high_disparity) |-> ReportRow(high_disparity[k])]]
      ELSE [files |-> fs1, report |-> << >>]

RECURSIVE Product(_)
Product(s) == IF s = << >> THEN 1 ELSE Head(s) * Product(Tail(s))

\* equity_data['disparity_index'].mean(): NaN is skipped, NaN when nothing is
\* left.  The fractions are added over the product of their denominators'
\* counts; every defined index has the same maximum income in its denominator.
MeanDisparity(equity_data) ==
  LET defined == SelectSeq(equity_data, LAMBDA e : ~IsNaN(e.disparity_index))
      counts == [k \in 1..Len(defined) |-> defined[k].risk_score.den]
      p == Product(counts)
  IN  IF defined = << >> THEN NaN
      ELSE Num(Sum([k \in 1..Len(defined) |->
                      defined[k].disparity_index.num * (p \div counts[k])]),
               p * defined[1].income_normalized.den * Len(defined))

EquitySummary(equity_data) ==
  [high_disparity_zips |->
     Len(SelectSeq(equity_data, LAMBDA e : IsHighDisparity(e.disparity_index))),
   avg_disparity_index |-> MeanDisparity(equity_data)]

\* risk_data is << >> for None and <<table>> otherwise.  The caller's
\* demo_data is not read: the join uses zip_demo.  The caller's table is not assigned to: the
\* merge, when it happens, binds a new table to the local name.
calculate_equity_disparities(cs, d, fs, risk_data, caller_demo_data) ==
  LET fs1 == MakeOutputsDir(fs)
      merges == "risk_score" \notin cs /\ risk_data /= << >>
      local_cs == IF merges THEN cs \cup {"risk_score", "risk_level"} ELSE cs
      local_d == IF merges THEN MergeRisk(d, risk_data[1]) ELSE d
  IN  IF merges /\ "vin" \notin cs THEN Raise(cs, d, fs1)
      ELSE IF ~({"zip_code", "risk_score", "vehicle_age", "vin"} \subseteq local_cs)
           THEN Raise(cs, d, fs1)
      ELSE
        LET equity_data == EquityData(local_d, zip_demo)
            hud == generate_hud_equity_report(equity_data, fs1)
        IN  Return(cs, d, hud.files,
                   [equity_data |-> equity_data,
                    hud_report |-> hud.report,
                    summary |-> EquitySummary(equity_data)])

(***************************************************************************)
(* report_generator.py                                                     *)
(***************************************************************************)
\* The report reads three counts and one sum from the summaries and writes
\* one file; open() raises when the outputs directory does not exist.
generate_regulatory_report(fs, risk_summary, emissions_summary, equity_summary) ==
  IF OUTPUTS_DIR \notin fs
  THEN [raised |-> TRUE, files |-> fs, result |-> << >>]
  ELSE [raised |-> FALSE,
        files |-> fs \cup {"../outputs/regulatory_report_CA_2023.txt"},
        result |-> <<[path |-> "../outputs/regulatory_report_CA_2023.txt",
                      critical_count |-> risk_summary.critical_count,
                      high_emitters |-> emissions_summary.high_emitters,
                      total_CO2_kg |-> emissions_summary.total_CO2_kg,
                      high_disparity_zips |-> equity_summary.high_disparity_zips]>>]

(***************************************************************************)
(* The input: what the data source hands to the drivers.                   *)
(***************************************************************************)
MaxFleet == 2

INPUT_COLUMNS == {"vin", "make", "model_year", "vehicle_age", "odometer", "zip_code"}

\* One row of the vehicle table.  A derived column holds 0 or "" until an
\* engine assigns it; cols says which columns the table has.
Vehicle(make, model_year, vehicle_age, odometer, zip_code) ==
  [vin |-> 0, make |-> make, model_year |-> model_year,
   vehicle_age |-> vehicle_age, odometer |-> odometer, zip_code |-> zip_code,
   deterioration_factor |-> 0, market_value_factor |-> 0,
   survival_probability_gc |-> 0, survival_probability_okamoto |-> 0,
   price_premium |-> 0, survival_elasticity_adjusted |-> 0,
   final_survival_probability |-> 0,
   risk_base |-> 0, make_factor |-> 0, risk_score |-> 0, risk_level |-> "",
   emission_category |-> "", CO2_g_per_mile |-> 0, NOx_g_per_mile |-> 0,
   PM25_g_per_mile |-> 0, annual_mileage |-> 0, CO2_annual_kg |-> 0,
   NOx_annual_kg |-> 0, PM25_annual_kg |-> 0]

Makes == {"Toyota", "Nissan", "Lada"}

\* 2035 is a year ahead of both reference years, as a mistyped record has
ModelYears == {1999, 2000, 2009, 2010, 2018, 2019, 2020, 2035}

Ages == {0, 4, 5, 14, 15, 29, 30, 35}

Odometers == {0, 200000}

ZipCodes == {90011, 99999}

\* every combination of the attribute values above
AllVehicles ==
  {Vehicle(m, y, a, o, z) : m \in Makes, y \in ModelYears, a \in Ages,
                            o \in Odometers, z \in ZipCodes}

\* a few vehicles to build fleets from: new and old, known and unknown make,
\* matched and unmatched zip_code
FleetVehicles ==
  {Vehicle("Toyota", 2020, 0, 0, 90210),
   Vehicle("Nissan", 1999, 30, 200000, 90011),
   Vehicle("Lada", 2009, 15, 100000, 99999),
   Vehicle("Ford", 2018, 5, 50000, 90001),
   Vehicle("Nissan", 1999, 29, 200000, 90210)}

\* ages 2, 7, 12, 18, 25 with one odometer reading
ScenarioFleet ==
  <<Vehicle("Ford", 2021, 2, 50000, 90001),
    Vehicle("Ford", 2016, 7, 50000, 90001),
    Vehicle("Ford", 2011, 12, 50000, 90011),
    Vehicle("Ford", 2005, 18, 50000, 90011),
    Vehicle("Ford", 1998, 25, 50000, 90210)>>

Fleets ==
  UNION {[1..n -> FleetVehicles] : n \in 0..MaxFleet} \cup {ScenarioFleet}

\* the draws of the noise term, in thousandths
Noise == {-20000, -1, 0, 4999, 5000, 20000}

\* the columns a table from the data source may lack
Missing == {"", "odometer", "make", "model_year", "zip_code", "vin"}

\* vin is the row's identifier: f'{state_code}{i:08d}' in the data source
WithVin(fleet) == [i \in 1..Len(fleet) |-> [fleet[i] EXCEPT !.vin = i]]

\* a table without column c: the column's values are not there to read
Without(fleet, c) ==
  [i \in 1..Len(fleet) |->
     IF c = "" THEN fleet[i]
     ELSE [fleet[i] EXCEPT ![c] = IF c = "make" THEN "" ELSE 0]]

\* the demographic table collect_all_data returns, median_income in
\* thousands of dollars
DEMO_DATA ==
  <<[zip_code |-> 90001, median_income |-> 45],
    [zip_code |-> 90011, median_income |-> 38],
    [zip_code |-> 90210, median_income |-> 125]>>

\* that table, and one from a source that reports another income for 90001
DemoTables ==
  {DEMO_DATA, [DEMO_DATA EXCEPT ![1].median_income = 60]}

\* four vehicles around the report's threshold: the first has a score of
\* 78 before the noise and lives in 90001, the second lives in the zip_code
\* of the highest income, the third has a score of 100 and lives in 90011,
\* the fourth has a score of 65 and a zip_code without demographics
EquityFleet ==
  <<Vehicle("Ford", 2006, 20, 100000, 90001),
    Vehicle("Toyota", 2020, 0, 0, 90210),
    Vehicle("Nissan", 1999, 30, 200000, 90011),
    Vehicle("Lada", 2009, 15, 100000, 99999)>>

EquityNoise == {124, 125, 126}

Fresh ==
  /\ pc = "survival"
  /\ invoked = << >>
  /\ raised = {}
  /\ survival_results = << >>
  /\ risk_results = << >>
  /\ emissions_results = << >>
  /\ equity_results = << >>
  /\ report_path = << >>
  /\ request = << >>
  \* get_simulated_vehicle_data seeded the generator and drew the table from it
  /\ np_random = "advanced"
  \* simple_test.py makes the outputs directory before it runs an engine
  /\ files = IF driver = "simple_test" THEN {OUTPUTS_DIR} ELSE {}

\* one vehicle, every combination of attributes and noise
InitVehicle ==
  /\ demo_data = DEMO_DATA
  /\ driver = "main"
  /\ cols = INPUT_COLUMNS
  /\ \E v \in AllVehicles : df = WithVin(<<v>>)
  /\ rng42 \in [1..1 -> Noise]
  /\ tie_order = "stable"
  /\ can_plot = TRUE
  /\ Fresh

\* a fleet through the pipeline
InitFleet ==
  /\ demo_data = DEMO_DATA
  /\ driver = "main"
  /\ cols = INPUT_COLUMNS
  /\ \E fleet \in Fleets :
       /\ df = WithVin(fleet)
       /\ rng42 \in [1..Len(fleet) -> FleetNoise]
  /\ tie_order \in {"stable", "reversed"}
  /\ can_plot = TRUE
  /\ Fresh

\* a table that may lack a column, through either driver
InitSchema ==
  /\ demo_data = DEMO_DATA
  /\ driver \in {"main", "simple_test"}
  /\ \E fleet \in Fleets, c \in Missing :
       /\ cols = INPUT_COLUMNS \ {c}
       /\ df = Without(WithVin(fleet), c)
       /\ rng42 = [i \in 1..Len(fleet) |-> 0]
  /\ tie_order = "stable"
  /\ can_plot \in BOOLEAN
  /\ Fresh

\* a fleet at the equity report's threshold, with either demographic table
InitEquity ==
  /\ demo_data \in DemoTables
  /\ driver = "main"
  /\ cols = INPUT_COLUMNS
  /\ df = WithVin(EquityFleet)
  /\ rng42 \in [1..Len(EquityFleet) -> EquityNoise]
  /\ tie_order = "stable"
  /\ can_plot = TRUE
  /\ Fresh

Init == InitVehicle \/ InitFleet \/ InitSchema \/ InitEquity

(***************************************************************************)
(* The drivers.  run_pipeline.main runs five stages and has no handler: an *)
(* engine that raises ends the run.  simple_test.py runs three, each in a  *)
(* try block whose handler prints a note and goes on.                      *)
(***************************************************************************)
MAIN_STAGES == <<"survival", "risk", "emissions", "equity", "report">>

TEST_STAGES == <<"survival", "risk", "emissions">>

Stages(drv) == IF drv = "main" THEN MAIN_STAGES ELSE TEST_STAGES

\* mutant: main runs the equity stage before the risk stage
NextStage_equity_first(drv, s) ==
  LET order == IF drv = "main"
               THEN <<"survival", "equity", "risk", "emissions", "report">>
               ELSE TEST_STAGES
      k == CHOOSE i \in 1..Len(order) : order[i] = s
  IN  IF k = Len(order) THEN "done" ELSE order[k + 1]

\* the stage the driver invokes after stage s returned
NextStage(drv, s) ==
  LET order == Stages(drv)
      k == CHOOSE i \in 1..Len(order) : order[i] = s
  IN  IF k = Len(order) THEN "done" ELSE order[k + 1]

\* mutant: main goes on to the next stage after an engine raised
After_continue(drv, s, has_raised) == NextStage(drv, s)

\* where the driver goes when stage s has returned or raised
After(drv, s, has_raised) ==
  IF has_raised /\ drv = "main" THEN "aborted" ELSE NextStage(drv, s)

Invoke(s, out) ==
  /\ invoked' = Append(invoked, s)
  /\ raised' = IF out.raised THEN raised \cup {s} ELSE raised
  /\ pc' = After(driver, s, out.raised)
  /\ files' = out.files
  /\ UNCHANGED <<driver, rng42, demo_data, tie_order, can_plot, request>>

Survival ==
  /\ pc = "survival"
  /\ LET out == calculate_phd_survival_curves(cols, df, files, can_plot)
     IN  /\ Invoke("survival", out)
         /\ cols' = out.cols
         /\ df' = out.df
         /\ survival_results' = out.result
  /\ UNCHANGED <<np_random, risk_results, emissions_results, equity_results,
                 report_path>>

Risk ==
  /\ pc = "risk"
  /\ LET gen == np_random_seed(np_random)
     IN  \E noise \in np_random_normal(gen, Len(df), rng42) :
           LET out == calculate_risk_scores(cols, df, files, noise, tie_order)
           IN  /\ Invoke("risk", out)
               /\ cols' = out.cols
               /\ df' = out.df
               /\ risk_results' = out.result
               /\ np_random' = np_random_after(gen, cols, df)
  /\ UNCHANGED <<survival_results, emissions_results, equity_results, report_path>>

Emissions ==
  /\ pc = "emissions"
  /\ LET out == calculate_emissions(cols, df, files, tie_order)
     IN  /\ Invoke("emissions", out)
         /\ cols' = out.cols
         /\ df' = out.df
         /\ emissions_results' = out.result
  /\ UNCHANGED <<np_random, survival_results, risk_results, equity_results,
                 report_path>>

\* calculate_equity_disparities(vehicle_data, risk_results['risk_scores'], demo_data)
Equity ==
  /\ pc = "equity"
  /\ LET risk_data == IF risk_results = << >> THEN << >>
                      ELSE <<risk_results[1].risk_scores>>
         out == calculate_equity_disparities(cols, df, files, risk_data, demo_data)
     IN  /\ Invoke("equity", out)
         /\ cols' = out.cols
         /\ df' = out.df
         /\ equity_results' = out.result
  /\ UNCHANGED <<np_random, survival_results, risk_results, emissions_results,
                 report_path>>

Report ==
  /\ pc = "report"
  /\ LET ready == /\ risk_results /= << >>
                  /\ emissions_results /= << >>
                  /\ equity_results /= << >>
         out == IF ready
                THEN generate_regulatory_report(files, risk_results[1].summary,
                                                emissions_results[1].summary,
                                                equity_results[1].summary)
                ELSE [raised |-> TRUE, files |-> files, result |-> << >>]
     IN  /\ Invoke("report", out)
         /\ report_path' = out.result
  /\ UNCHANGED <<cols, df, np_random, survival_results, risk_results,
                 emissions_results, equity_results>>

(***************************************************************************)
(* Calls a caller makes on the table once the driver is through: the two   *)
(* list generators with a top_n of its own, and the risk engine again.     *)
(***************************************************************************)
TopNs == {1, 2}

Request(call, top_n, out) ==
  /\ request' = <<[call |-> call, top_n |-> top_n, result |-> out.result]>>
  /\ files' = out.files
  /\ UNCHANGED <<driver, pc, rng42, demo_data, tie_order, can_plot, invoked,
                 raised, survival_results, risk_results, emissions_results,
                 equity_results, report_path>>

\* generate_nhtsa_priority_list(vehicle_data, top_n)
PriorityList ==
  /\ pc = "done"
  /\ request = << >>
  /\ risk_results /= << >>
  /\ \E top_n \in TopNs :
       Request("generate_nhtsa_priority_list", top_n,
               generate_nhtsa_priority_list(cols, df, files, top_n, tie_order))
  /\ UNCHANGED <<cols, df, np_random>>

\* generate_epa_targeting_list(vehicle_data, top_n)
TargetingList ==
  /\ pc = "done"
  /\ request = << >>
  /\ emissions_results /= << >>
  /\ \E top_n \in TopNs :
       Request("generate_epa_targeting_list", top_n,
               generate_epa_targeting_list(cols, df, files, top_n, tie_order))
  /\ UNCHANGED <<cols, df, np_random>>

\* calculate_risk_scores(vehicle_data) a second time, on the same records
RiskAgain ==
  /\ pc = "done"
  /\ request = << >>
  /\ risk_results /= << >>
  /\ LET gen == np_random_seed(np_random)
     IN  \E noise \in np_random_normal(gen, Len(df), rng42) :
           LET out == calculate_risk_scores(cols, df, files, noise, tie_order)
           IN  /\ Request("calculate_risk_scores", NHTSA_TOP_N, out)
               /\ cols' = out.cols
               /\ df' = out.df
               /\ np_random' = np_random_after(gen, cols, df)

Next ==
  \/ Survival \/ Risk \/ Emissions \/ Equity \/ Report
  \/ PriorityList \/ TargetingList \/ RiskAgain

Spec == Init /\ [][Next]_vars

(***************************************************************************)
(* Properties.                                                             *)
(***************************************************************************)
Rows == 1..Len(df)

Returned(results) == results /= << >>

\* the marker the specification asks for in place of a mean over zero rows
NoData == [kind |-> "no data", num |-> 0, den |-> 1]

\* risk_base * make_factor * 20 + noise of row i, before the clamp
RawScore(i) == (df[i].risk_base * df[i].make_factor * 20) \div 1000 + rng42[i]

\* C1: for every vehicle and every value of the noise term, the risk_score
\* that calculate_risk_scores produces lies in [0, 100], in the table, in the
\* returned risk_scores and in the priority list.
C1_RiskScoreInRange ==
  /\ "risk_score" \in cols =>
       \A i \in Rows : df[i].risk_score >= 0 /\ df[i].risk_score <= 100000
  /\ Returned(risk_results) =>
       /\ \A i \in 1..Len(risk_results[1].risk_scores) :
            /\ risk_results[1].risk_scores[i].risk_score >= 0
            /\ risk_results[1].risk_scores[i].risk_score <= 100000
       /\ \A i \in 1..Len(risk_results[1].priority_list) :
            /\ risk_results[1].priority_list[i].risk_score >= 0
            /\ risk_results[1].priority_list[i].risk_score <= 100000

\* one vehicle whose unclamped score is above 100 and one whose is below 0
C1_Witness ==
  /\ Returned(risk_results)
  /\ \E i \in Rows : RawScore(i) > 100000 /\ df[i].risk_score = 100000
  /\ \E i \in Rows : RawScore(i) < 0 /\ df[i].risk_score = 0

\* C2: risk_level partitions the score range, lower bound inclusive and
\* upper bound exclusive: Low iff score < 30, Medium iff 30 <= score < 60,
\* High iff 60 <= score < 80, Critical iff score >= 80, and every vehicle has
\* exactly one of the four levels.
C2_RiskLevelPartition ==
  "risk_level" \in cols =>
    \A i \in Rows :
      LET s == df[i].risk_score
          l == df[i].risk_level
      IN  /\ l \in {"Low", "Medium", "High", "Critical"}
          /\ l = "Low" <=> s < 30000
          /\ l = "Medium" <=> (30000 <= s /\ s < 60000)
          /\ l = "High" <=> (60000 <= s /\ s < 80000)
          /\ l = "Critical" <=> s >= 80000

\* a score of exactly 30 is Medium
C2_Witness ==
  /\ Returned(risk_results)
  /\ \E i \in Rows : df[i].risk_score = 30000 /\ df[i].risk_level = "Medium"

\* C3: the Okamoto survival probability is exactly 0.0 for every
\* vehicle_age >= 30 and exactly 1.0 for vehicle_age = 0, whatever the other
\* fields of the vehicle are.
C3_OkamotoEnds ==
  "survival_probability_okamoto" \in cols =>
    \A i \in Rows :
      /\ df[i].vehicle_age >= 30 => df[i].survival_probability_okamoto = 0
      /\ df[i].vehicle_age = 0 => df[i].survival_probability_okamoto = 1000000

\* a table with a vehicle of age 0 and one of age 30 or more
C3_Witness ==
  /\ Returned(survival_results)
  /\ \E i \in Rows : df[i].vehicle_age = 0 /\ df[i].survival_probability_okamoto = 1000000
  /\ \E i \in Rows : df[i].vehicle_age >= 30 /\ df[i].survival_probability_okamoto = 0

\* the count of the cohort row with this label, 0 when the row is left out
CohortCount(label) ==
  LET rows == SelectSeq(survival_results[1].cohort_results,
                        LAMBDA c : c.age_cohort = label)
  IN  IF rows = << >> THEN 0 ELSE rows[1].count

AgesIn(lo, hi) ==
  Cardinality({i \in Rows : lo <= df[i].vehicle_age /\ df[i].vehicle_age <= hi})

AgeList == [i \in Rows |-> df[i].vehicle_age]

\* C4: cohort bins are inclusive-low and exclusive-high: a vehicle of age
\* exactly 5 is counted in '5-10' and not in '0-5', one of age exactly 15 in
\* '15+' and not in '10-15', no vehicle is counted in two cohorts, and the
\* ages [2,7,12,18,25] give the counts [1,1,1,2].
C4_CohortBins ==
  Returned(survival_results) =>
    /\ CohortCount("0-5") = AgesIn(0, 4)
    /\ CohortCount("5-10") = AgesIn(5, 9)
    /\ CohortCount("10-15") = AgesIn(10, 14)
    /\ CohortCount("15+") >= AgesIn(15, 15)
    /\ CohortCount("0-5") + CohortCount("5-10") + CohortCount("10-15")
       + CohortCount("15+") <= Len(df)
    /\ AgeList = <<2, 7, 12, 18, 25>> =>
         <<CohortCount("0-5"), CohortCount("5-10"), CohortCount("10-15"),
           CohortCount("15+")>> = <<1, 1, 1, 2>>

\* a table with a vehicle of age exactly 5 and one of age exactly 15
C4_Witness ==
  /\ Returned(survival_results)
  /\ AgesIn(5, 5) > 0
  /\ AgesIn(15, 15) > 0

\* the table of the claim: category by year range, its rates in hundredths
C5_Category(year) ==
  CASE year < 2000 -> "pre_2000"
    [] 2000 <= year /\ year <= 2009 -> "2000_2009"
    [] 2010 <= year /\ year <= 2019 -> "2010_2019"
    [] year >= 2020 -> "2020_plus"

\* C5: every model_year maps to exactly one emission category (pre_2000 iff
\* year < 2000, 2000_2009 iff 2000..2009, 2010_2019 iff 2010..2019, 2020_plus
\* iff year >= 2020), and the vehicle's rates and annual totals
\* (rate * 12000 / 1000) are those of that category.
C5_EmissionCategory ==
  "emission_category" \in cols =>
    \A i \in Rows :
      LET r == df[i]
          f == emission_factors(C5_Category(r.model_year))
      IN  /\ r.emission_category = C5_Category(r.model_year)
          /\ r.CO2_g_per_mile = f.CO2
          /\ r.NOx_g_per_mile = f.NOx
          /\ r.PM25_g_per_mile = f.PM25
          /\ r.CO2_annual_kg * 1000 = f.CO2 * 12000
          /\ r.NOx_annual_kg * 1000 = f.NOx * 12000
          /\ r.PM25_annual_kg * 1000 = f.PM25 * 12000

\* a vehicle of model year 2000, the first year of its category
C5_Witness ==
  /\ Returned(emissions_results)
  /\ \E i \in Rows : df[i].model_year = 2000 /\ df[i].emission_category = "2000_2009"

IsPrefix(s, t) == Len(s) <= Len(t) /\ s = SubSeq(t, 1, Len(s))

\* C6: in every pipeline run the stages are invoked in the order survival,
\* risk, emissions, equity, report, and calculate_equity_disparities is never
\* invoked before calculate_risk_scores of the same run has completed.
C6_EquityAfterRisk ==
  /\ IsPrefix(invoked, <<"survival", "risk", "emissions", "equity", "report">>)
  /\ (pc = "equity" \/ \E k \in 1..Len(invoked) : invoked[k] = "equity") =>
       /\ Returned(risk_results)
       /\ "risk" \notin raised

\* a run of the pipeline that invoked all five stages
C6_Witness ==
  /\ driver = "main"
  /\ pc = "done"
  /\ invoked = <<"survival", "risk", "emissions", "equity", "report">>
  /\ Returned(equity_results)

\* no stage was invoked after a stage that raised
NothingAfterRaise == \A k \in 1..Len(invoked) : invoked[k] \in raised => k = Len(invoked)

C8_EmptyEquity ==
  (df = << >> /\ INPUT_COLUMNS \subseteq cols /\ "equity" \in {invoked[k] : k \in 1..Len(invoked)}) =>
    /\ "equity" \notin raised
    /\ Returned(equity_results)
    /\ equity_results[1].equity_data = << >>
    /\ equity_results[1].hud_report = << >>
    /\ equity_results[1].summary.high_disparity_zips = 0
    /\ equity_results[1].summary.avg_disparity_index = NoData

\* C9: an empty record set given to the survival, risk or emissions engine
\* yields empty result structures without raising, and every mean reported
\* over zero rows (avg_survival, median_remaining, avg_risk_score) is an
\* explicit 'no data' marker, never an undefined value.
C9_EmptyEngines ==
  (df = << >> /\ INPUT_COLUMNS \subseteq cols) =>
    /\ raised \cap {"survival", "risk", "emissions"} = {}
    /\ Returned(survival_results) =>
         /\ survival_results[1].cohort_results = << >>
         /\ survival_results[1].summary.avg_survival = NoData
         /\ survival_results[1].summary.median_remaining = NoData
    /\ Returned(risk_results) =>
         /\ risk_results[1].risk_scores = << >>
         /\ risk_results[1].priority_list = << >>
         /\ risk_results[1].summary.avg_risk_score = NoData
    /\ Returned(emissions_results) =>
         emissions_results[1].epa_target_list = << >>

\* C10: the engines treat the caller's vehicle table as immutable: a call of
\* the survival, risk, emissions or equity engine leaves its columns and
\* values as they were.
C10_InputImmutable ==
  [][(pc \in {"survival", "risk", "emissions", "equity"})
         => (cols' = cols /\ df' = df) ]_vars

\* C11: a stage either fully succeeds or aborts with no partial effect: a
\* call of an engine that raises (the risk engine on a table without 'make',
\* the survival engine on one without 'odometer') leaves the vehicle table's
\* columns and values exactly as they were before the call.
C11_AbortHasNoEffect ==
  [][(raised' /= raised) => (cols' = cols /\ df' = df) ]_vars

\* C12: the four computation entry points perform no filesystem access: a
\* call of the survival, risk, emissions or equity engine creates no
\* directory and writes no file; only the report stage writes.
C12_EnginesWriteNothing ==
  [][(pc \in {"survival", "risk", "emissions", "equity"})
         => (files' = files) ]_vars

Min(a, b) == IF a <= b THEN a ELSE b

\* the rows of list are distinct rows of the table, told apart by vin
FromTable(list) ==
  /\ \A i, j \in 1..Len(list) : list[i].vin = list[j].vin => i = j
  /\ \A i \in 1..Len(list) : \E k \in Rows : df[k].vin = list[i].vin

\* list ranks the table by risk_score and holds its top_n highest
IsPriorityRanking(list, top_n) ==
  /\ Len(list) = Min(top_n, Len(df))
  /\ FromTable(list)
  /\ \A i \in 1..Len(list) :
       \E k \in Rows : df[k].vin = list[i].vin /\ df[k].risk_score = list[i].risk_score
  /\ \A i \in 1..(Len(list) - 1) : list[i].risk_score >= list[i + 1].risk_score
  /\ \A k \in Rows :
       (\A i \in 1..Len(list) : list[i].vin /= df[k].vin) =>
          \A i \in 1..Len(list) : df[k].risk_score <= list[i].risk_score

\* the request was this call, and it returned
Requested(call) ==
  /\ request /= << >>
  /\ request[1].call = call
  /\ request[1].result /= << >>

\* C13: the priority ranking holds exactly min(top_n, fleet size) vehicles
\* in non-increasing risk_score order, and every vehicle left out has a
\* risk_score no higher than that of every vehicle in it; for the list the
\* risk engine returns (top_n = 50) and for a list asked for with a top_n
\* below the fleet size.
C13_PriorityRanking ==
  /\ Returned(risk_results) =>
       IsPriorityRanking(risk_results[1].priority_list, NHTSA_TOP_N)
  /\ Requested("generate_nhtsa_priority_list") =>
       IsPriorityRanking(request[1].result[1], request[1].top_n)

\* a ranking shorter than the fleet, whose first table row is not its best
C13_Witness ==
  /\ Requested("generate_nhtsa_priority_list")
  /\ request[1].top_n < Len(df)
  /\ Len(request[1].result[1]) = request[1].top_n
  /\ \E k \in Rows : df[k].risk_score > df[1].risk_score

URGENT == "URGENT: Full safety inspection + emissions test"

PRIORITY == "PRIORITY: Brake & tire inspection"

ROUTINE == "ROUTINE: Standard safety check"

\* every row of the list carries the recommendation of its score and level
IsLadder(list) ==
  \A i \in 1..Len(list) :
    LET s == list[i].risk_score
        l == list[i].risk_level
        rec == list[i].inspection_recommendation
    IN  /\ rec \in {URGENT, PRIORITY, ROUTINE}
        /\ rec = URGENT <=> s >= 80000
        /\ rec = PRIORITY <=> (60000 <= s /\ s < 80000)
        /\ rec = ROUTINE <=> s < 60000
        /\ rec = URGENT <=> l = "Critical"
        /\ rec = PRIORITY <=> l = "High"
        /\ l \in {"Low", "Medium"} => rec = ROUTINE

\* C14: the inspection recommendation is a ladder of its own: URGENT iff
\* risk_score >= 80, PRIORITY iff 60 <= risk_score < 80, ROUTINE iff
\* risk_score < 60; so URGENT iff the level is Critical, PRIORITY iff it is
\* High, and Low and Medium both get ROUTINE.
C14_RecommendationLadder ==
  /\ Returned(risk_results) => IsLadder(risk_results[1].priority_list)
  /\ Requested("generate_nhtsa_priority_list") => IsLadder(request[1].result[1])

\* a listed vehicle whose score is exactly 60, the first PRIORITY score
C14_Witness ==
  /\ Returned(risk_results)
  /\ \E i \in 1..Len(risk_results[1].priority_list) :
       /\ risk_results[1].priority_list[i].risk_score = 60000
       /\ risk_results[1].priority_list[i].inspection_recommendation = PRIORITY
       /\ risk_results[1].priority_list[i].risk_level = "High"

\* the rows of the table in the two oldest emission categories
OldRows == {k \in Rows : df[k].emission_category \in {"pre_2000", "2000_2009"}}

\* the table holds nothing but copies of one pre-2000 vehicle
IdenticalPre2000 ==
  /\ Len(df) > 0
  /\ \A k \in Rows :
       /\ df[k].emission_category = "pre_2000"
       /\ [df[k] EXCEPT !.vin = 0] = [df[1] EXCEPT !.vin = 0]

IsTargeting(list, top_n) ==
  /\ Len(list) = Min(top_n, Cardinality(OldRows))
  /\ FromTable(list)
  /\ \A i \in 1..Len(list) :
       /\ list[i].emission_category \in {"pre_2000", "2000_2009"}
       /\ list[i].estimated_benefit
            = list[i].PM25_annual_kg * 1000 + list[i].CO2_annual_kg * 50
       /\ \E k \in OldRows :
            /\ df[k].vin = list[i].vin
            /\ df[k].PM25_annual_kg = list[i].PM25_annual_kg
            /\ df[k].CO2_annual_kg = list[i].CO2_annual_kg
  /\ \A i \in 1..(Len(list) - 1) : list[i].PM25_annual_kg >= list[i + 1].PM25_annual_kg
  /\ (IdenticalPre2000 /\ top_n < Len(df)) =>
       /\ Len(list) = top_n
       /\ \A i \in 1..Len(list) : list[i].estimated_benefit = list[1].estimated_benefit

\* C15: the emissions targeting list holds only vehicles of the categories
\* pre_2000 and 2000_2009, in non-increasing PM25_annual_kg order, exactly
\* min(top_n, number of such vehicles) of them, each with estimated_benefit
\* = PM25_annual_kg * 1000 + CO2_annual_kg * 50; N identical pre-2000
\* vehicles and top_n < N give exactly top_n rows of one estimated_benefit.
C15_TargetingList ==
  /\ Returned(emissions_results) =>
       IsTargeting(emissions_results[1].epa_target_list, EPA_TOP_N)
  /\ Requested("generate_epa_targeting_list") =>
       IsTargeting(request[1].result[1], request[1].top_n)

\* two identical pre-2000 vehicles and a list of one
C15_Witness ==
  /\ Requested("generate_epa_targeting_list")
  /\ IdenticalPre2000
  /\ Len(df) = 2
  /\ request[1].top_n = 1
  /\ Len(request[1].result[1]) = 1

\* the rows of the equity aggregate
EquityRows == equity_results[1].equity_data

\* row k has the highest median_income of the aggregate
HasMaxIncome(k) ==
  /\ ~IsNaN(EquityRows[k].median_income)
  /\ \A j \in 1..Len(EquityRows) :
       IsNaN(EquityRows[j].median_income)
         \/ EquityRows[j].median_income.num <= EquityRows[k].median_income.num

\* C16: a geography whose median_income is the highest of the result set has
\* a disparity_index of exactly 0, whatever its mean risk is, 100 included.
C16_MaxIncomeZeroDisparity ==
  Returned(equity_results) =>
    \A k \in 1..Len(EquityRows) :
      HasMaxIncome(k) =>
        /\ ~IsNaN(EquityRows[k].disparity_index)
        /\ EquityRows[k].disparity_index.num = 0

\* the zip_code of the highest income has a mean risk of 100, and another
\* zip_code of the aggregate has an index above 0
C16_Witness ==
  /\ Returned(equity_results)
  /\ \E k \in 1..Len(EquityRows) :
       /\ HasMaxIncome(k)
       /\ EquityRows[k].risk_score.num = 100000 * EquityRows[k].risk_score.den
       /\ EquityRows[k].disparity_index.num = 0
  /\ \E j \in 1..Len(EquityRows) :
       ~IsNaN(EquityRows[j].disparity_index) /\ EquityRows[j].disparity_index.num > 0

\* the rows of the caller's demographic table for this zip_code
DemoRowsOf(zip) == SelectSeq(demo_data, LAMBDA x : x.zip_code = zip)

\* C17: the demographic fields of the equity result come from the
\* demographic table the caller supplied: the median_income of a zip_code's
\* row is the one that table holds for it, so tables that differ in a
\* zip_code's median_income give different rows.
C17_DemoFromCaller ==
  Returned(equity_results) =>
    \A k \in 1..Len(EquityRows) :
      DemoRowsOf(EquityRows[k].zip_code) /= << >> =>
        EquityRows[k].median_income
          = Num(DemoRowsOf(EquityRows[k].zip_code)[1].median_income, 1)

\* the zip_codes of the vehicle table
InputZips == {df[i].zip_code : i \in Rows}

\* the zip_codes the joined demographic table holds
DemoZips == {zip_demo[i].zip_code : i \in 1..Len(zip_demo)}

\* C18: the equity aggregate has exactly one row per distinct zip_code of
\* the input vehicles; a zip_code the joined demographic table does not hold
\* keeps its row, with NaN in median_income, poverty_rate and minority_pct,
\* and is never dropped.
C18_OneRowPerZip ==
  Returned(equity_results) =>
    /\ Len(EquityRows) = Cardinality(InputZips)
    /\ \A z \in InputZips :
         Cardinality({k \in 1..Len(EquityRows) : EquityRows[k].zip_code = z}) = 1
    /\ \A k \in 1..Len(EquityRows) :
         /\ EquityRows[k].zip_code \in InputZips
         /\ EquityRows[k].vehicle_count
              = Cardinality({i \in Rows : df[i].zip_code = EquityRows[k].zip_code})
         /\ EquityRows[k].zip_code \notin DemoZips <=> IsNaN(EquityRows[k].median_income)
         /\ EquityRows[k].zip_code \notin DemoZips <=> IsNaN(EquityRows[k].poverty_rate)
         /\ EquityRows[k].zip_code \notin DemoZips <=> IsNaN(EquityRows[k].minority_pct)

\* two vehicles of a zip_code without demographics, in one row of the aggregate
C18_Witness ==
  /\ Returned(equity_results)
  /\ \E k \in 1..Len(EquityRows) :
       /\ EquityRows[k].zip_code \notin DemoZips
       /\ EquityRows[k].vehicle_count = 2
       /\ IsNaN(EquityRows[k].median_income)

\* the rows of the aggregate whose disparity_index is above 50
Above50 ==
  {k \in 1..Len(EquityRows) :
     /\ ~IsNaN(EquityRows[k].disparity_index)
     /\ EquityRows[k].disparity_index.num > 50000 * EquityRows[k].disparity_index.den}

HudReport == equity_results[1].hud_report

\* C19: the high-disparity report holds exactly the aggregate rows whose
\* disparity_index is strictly above 50 (a row at exactly 50 is left out),
\* each with hud_priority 'High' and the fixed recommended action; the
\* summary's high_disparity_zips is the number of report rows; and when no
\* row qualifies the engine returns an empty report and raises nothing.
C19_HighDisparityReport ==
  Returned(equity_results) =>
    /\ "equity" \notin raised
    /\ Len(HudReport) = Cardinality(Above50)
    /\ \A k \in Above50 :
         \E i \in 1..Len(HudReport) :
           /\ HudReport[i].zip_code = EquityRows[k].zip_code
           /\ HudReport[i].disparity_index = EquityRows[k].disparity_index
    /\ \A i \in 1..Len(HudReport) :
         /\ \E k \in Above50 : HudReport[i].zip_code = EquityRows[k].zip_code
         /\ HudReport[i].hud_priority = "High"
         /\ HudReport[i].recommended_action = "Targeted vehicle replacement program"
    /\ equity_results[1].summary.high_disparity_zips = Len(HudReport)
    /\ Above50 = {} => HudReport = << >>

\* one zip_code at exactly 50, left out, beside one above 50, reported
C19_Witness ==
  /\ Returned(equity_results)
  /\ \E k \in 1..Len(EquityRows) :
       /\ ~IsNaN(EquityRows[k].disparity_index)
       /\ EquityRows[k].disparity_index.num = 50000 * EquityRows[k].disparity_index.den
       /\ \A i \in 1..Len(HudReport) : HudReport[i].zip_code /= EquityRows[k].zip_code
  /\ Len(HudReport) = 1

\* C20: with the generator seeded inside the function, risk scoring is
\* reproducible: a second call of calculate_risk_scores on the same records
\* in the same row order returns the risk_score, risk_level, priority
\* ranking and summary of the first, whatever was drawn from the generator
\* before either call.
C20_SeededReproducible ==
  Requested("calculate_risk_scores") =>
    /\ request[1].result[1].risk_scores = risk_results[1].risk_scores
    /\ request[1].result[1].priority_list = risk_results[1].priority_list
    /\ request[1].result[1].summary = risk_results[1].summary
    /\ \A i \in Rows :
         /\ df[i].risk_score = risk_results[1].risk_scores[i].risk_score
         /\ df[i].risk_level = risk_results[1].risk_scores[i].risk_level

\* a second call on a fleet whose draws differ from row to row, made after
\* the first call had drawn from the generator
C20_Witness ==
  /\ Requested("calculate_risk_scores")
  /\ np_random = "advanced"
  /\ \E i, j \in Rows : rng42[i] /= rng42[j]
  /\ \E i \in Rows : df[i].risk_score > 0 /\ df[i].risk_score < 100000

\* C21: for every vehicle_age t with 0 < t < 30 the Okamoto formula
\* a^(t/(t-M)) is evaluated as written, with a negative exponent, and gives
\* a value strictly above 1; final_survival_probability is the blend
\* 0.3*gc + 0.3*okamoto + 0.4*elasticity without a clamp, so it can exceed 1.
C21_OkamotoAboveOne ==
  /\ \A t \in 1..(OKAMOTO_M - 1) : okamoto_survival(t) > 1000000
  /\ "final_survival_probability" \in cols =>
       \A i \in Rows :
         /\ (0 < df[i].vehicle_age /\ df[i].vehicle_age < 30) =>
              df[i].survival_probability_okamoto > 1000000
         /\ df[i].final_survival_probability
              = (3 * df[i].survival_probability_gc
                 + 3 * df[i].survival_probability_okamoto
                 + 4 * df[i].survival_elasticity_adjusted) \div 10

\* a vehicle of age 29 whose final_survival_probability is above 1
C21_Witness ==
  /\ Returned(survival_results)
  /\ \E i \in Rows :
       /\ df[i].vehicle_age = 29
       /\ df[i].survival_probability_okamoto > 1000000
       /\ df[i].final_survival_probability > 1000000

\* base_survival * elasticity_effect of row i before the clip, in millionths
RawElasticity(i) ==
  (ExpNeg(10 * df[i].vehicle_age)
   * (100 - 7 * (10 + (2023 - df[i].model_year)))) \div 100

\* C22: the scrap-elasticity survival value is clamped: for every vehicle,
\* of any model_year and any vehicle_age >= 0, survival_elasticity_adjusted
\* lies in [0, 1].
C22_ElasticityClamped ==
  "survival_elasticity_adjusted" \in cols =>
    \A i \in Rows :
      /\ df[i].survival_elasticity_adjusted >= 0
      /\ df[i].survival_elasticity_adjusted <= 1000000

\* a vehicle whose product is above 1 before the clip, stored as exactly 1
C22_Witness ==
  /\ Returned(survival_results)
  /\ \E i \in Rows :
       /\ RawElasticity(i) > 1000000
       /\ df[i].survival_elasticity_adjusted = 1000000

\* C23: with eta = -0.7 and the reference year 2023, elasticity_effect
\* = 1 - 0.7 * (1 + 0.1 * (2023 - model_year)) is not positive for a
\* model_year of 2018 or earlier, so survival_elasticity_adjusted is exactly
\* 0 there, whatever the age and odometer, and final_survival_probability
\* is 0.3 * Greenspan-Cohen + 0.3 * Okamoto.
C23_ElasticityZeroUpTo2018 ==
  "final_survival_probability" \in cols =>
    \A i \in Rows :
      df[i].model_year <= 2018 =>
        /\ 100 - 7 * (10 + (2023 - df[i].model_year)) <= 0
        /\ df[i].survival_elasticity_adjusted = 0
        /\ df[i].final_survival_probability
             = (3 * df[i].survival_probability_gc
                + 3 * df[i].survival_probability_okamoto) \div 10

\* a new vehicle of model year 2018, the last year of the case
C23_Witness ==
  /\ Returned(survival_results)
  /\ \E i \in Rows :
       /\ df[i].model_year = 2018
       /\ df[i].vehicle_age = 0
       /\ df[i].survival_elasticity_adjusted = 0
       /\ df[i].final_survival_probability = 600000

\* C24: the cohort model covers the whole fleet: with every vehicle_age >= 0
\* each vehicle is counted in exactly one cohort row, so the counts sum to
\* the number of vehicles, and a vehicle of age 30 or more is counted in the
\* last cohort, '15+'.
C24_CohortsCoverFleet ==
  Returned(survival_results) =>
    /\ CohortCount("0-5") + CohortCount("5-10") + CohortCount("10-15")
       + CohortCount("15+") = Len(df)
    /\ CohortCount("15+") = Cardinality({i \in Rows : df[i].vehicle_age >= 15})

\* the zip_code of the vehicle with this vin
ZipOfVin(vin) == df[CHOOSE i \in Rows : df[i].vin = vin].zip_code

\* the risk_score values the risk stage returned for the vehicles of zip
StageScoresOf(zip) ==
  Column(SelectSeq(risk_results[1].risk_scores, LAMBDA x : ZipOfVin(x.vin) = zip),
         "risk_score")

\* C25: in a pipeline run the per-zip mean risk_score of the equity
\* aggregate is the mean of the risk_score values the risk stage of that run
\* computed for the vehicles of the zip_code: the risk stage writes
\* risk_score into the shared vehicle table, so the equity stage finds the
\* column there and does not merge the risk table it is passed.
C25_ZipMeanFromRiskStage ==
  /\ (driver = "main" /\ pc = "equity") =>
       /\ "risk_score" \in cols
       /\ Returned(risk_results)
       /\ \A i \in Rows : df[i].risk_score = risk_results[1].risk_scores[i].risk_score
  /\ (driver = "main" /\ Returned(equity_results)) =>
       \A k \in 1..Len(EquityRows) :
         LET scores == StageScoresOf(EquityRows[k].zip_code)
         IN  /\ Len(scores) = EquityRows[k].vehicle_count
             /\ Len(scores) > 0
             /\ EquityRows[k].risk_score.num * Len(scores)
                  = Sum(scores) * EquityRows[k].risk_score.den

\* a zip_code with two vehicles whose scores from the risk stage differ
C25_Witness ==
  /\ driver = "main"
  /\ Returned(equity_results)
  /\ \E k \in 1..Len(EquityRows) :
       LET scores == StageScoresOf(EquityRows[k].zip_code)
       IN  Len(scores) = 2 /\ scores[1] /= scores[2]

\* C26: an aggregate row with a matched, positive median_income and a mean
\* risk_score in [0, 100] has a disparity_index in [0, 100]; a zip_code
\* without a demographic match has an undefined (NaN) disparity_index, is
\* in no row of the high-disparity report and is not counted in
\* high_disparity_zips.
C26_DisparityRange ==
  Returned(equity_results) =>
    /\ \A k \in 1..Len(EquityRows) :
         LET e == EquityRows[k]
         IN  /\ (~IsNaN(e.median_income) /\ e.median_income.num > 0
                 /\ e.risk_score.num >= 0
                 /\ e.risk_score.num <= 100000 * e.risk_score.den) =>
                  /\ ~IsNaN(e.disparity_index)
                  /\ e.disparity_index.den > 0
                  /\ e.disparity_index.num >= 0
                  /\ e.disparity_index.num <= 100000 * e.disparity_index.den
             /\ IsNaN(e.median_income) =>
                  /\ IsNaN(e.disparity_index)
                  /\ \A i \in 1..Len(HudReport) : HudReport[i].zip_code /= e.zip_code
    /\ equity_results[1].summary.high_disparity_zips
         = Cardinality({k \in Above50 : ~IsNaN(EquityRows[k].median_income)})

\* an unmatched zip_code with a mean risk above 50 beside a reported one
C26_Witness ==
  /\ Returned(equity_results)
  /\ \E k \in 1..Len(EquityRows) :
       /\ IsNaN(EquityRows[k].median_income)
       /\ EquityRows[k].risk_score.num > 50000 * EquityRows[k].risk_score.den
       /\ IsNaN(EquityRows[k].disparity_index)
  /\ Len(HudReport) = 1
  /\ equity_results[1].summary.high_disparity_zips = 1

====
